---------------------------- MODULE Spec2Model ----------------------------
(***************************************************************************)
(* Boot-time memory and PCI discovery of the pc platform                   *)
(* (src/platform/pc/platform.c): platform_parse_multiboot_info,            *)
(* platform_early_init and platform_init, as a state machine.              *)
(*                                                                         *)
(* The code computes on uint64_t.  A 64-bit value is a sequence of four    *)
(* 16-bit limbs, least significant first, <<w0, w1, w2, w3>>, standing for *)
(* w0 + w1*2^16 + w2*2^32 + w3*2^48; a 32-bit half of a memory-map record  *)
(* is two limbs.  Addition and subtraction wrap modulo 2^64 as in C.       *)
(*                                                                         *)
(* Scope: the build with WITH_DEV_BUS_PCI set (the PCI block of            *)
(* platform_init exists only there), either of the two architectures of    *)
(* lines 54-58, and arena fields wide enough to hold a uint64_t.           *)
(***************************************************************************)
EXTENDS Integers, Sequences, FiniteSets, TLC

\* ------------------------------------------------------------ uint64_t

Limb == 2^16

U64Zero == <<0, 0, 0, 0>>

\* a + b + cin as five limbs: the four limbs of the 64-bit result and the carry out.
AddLimbs(a, b, cin) ==
    LET s1 == a[1] + b[1] + cin
        s2 == a[2] + b[2] + (s1 \div Limb)
        s3 == a[3] + b[3] + (s2 \div Limb)
        s4 == a[4] + b[4] + (s3 \div Limb)
    IN  <<s1 % Limb, s2 % Limb, s3 % Limb, s4 % Limb, s4 \div Limb>>

\* uint64_t a + b: the sum modulo 2^64.
U64Add(a, b) == SubSeq(AddLimbs(a, b, 0), 1, 4)

\* 1 when the mathematical sum a + b does not fit 64 bits, else 0.
U64Carry(a, b) == AddLimbs(a, b, 0)[5]

\* uint64_t a - b: the difference modulo 2^64 (a + ~b + 1).
U64Sub(a, b) ==
    SubSeq(AddLimbs(a, [k \in 1..4 |-> Limb - 1 - b[k]], 1), 1, 4)

\* uint64_t a < b.
U64Lt(a, b) ==
    \/ a[4] < b[4]
    \/ a[4] = b[4] /\ a[3] < b[3]
    \/ a[4] = b[4] /\ a[3] = b[3] /\ a[2] < b[2]
    \/ a[4] = b[4] /\ a[3] = b[3] /\ a[2] = b[2] /\ a[1] < b[1]

U64Le(a, b) == ~U64Lt(b, a)

\* ----------------------------------------------------- program constants

PAGE_SIZE == 4096

NUM_ARENAS == 16

\* 1*MB
MB1 == <<0, 16, 0, 0>>

\* DEFAULT_MEMEND, 16*1024*1024
DEFAULT_MEMEND == <<0, 256, 0, 0>>

\* The physical base of RAM; set by the build, 0 on the pc platform (the
\* initial mappings of lines 64-86 map "the first 64GB" from it).
MEMBASE == U64Zero

Archs == {"ARCH_X86_64", "ARCH_X86_32"}

\* 64ULL*GB = 2^36 on x86-64, 1ULL*GB = 2^30 on x86-32.
MAX_PHYSICAL_RAM(a) ==
    IF a = "ARCH_X86_64" THEN <<0, 0, 16, 0>> ELSE <<0, 16384, 0, 0>>

MB_MMAP_TYPE_AVAILABLE == 1

\* PAGE_SIZE, MB, PAGE_ALIGN, ROUNDDOWN, MEMBASE, MB_MMAP_TYPE_AVAILABLE and the
\* ACPI structure sizes come from headers outside platform.c; they are given
\* here with their usual values (4 KiB pages, type 1 for available memory).

\* ROUNDDOWN(a, PAGE_SIZE): a & ~(PAGE_SIZE - 1); the mask touches the low limb only.
ROUNDDOWN(a) == <<a[1] - (a[1] % PAGE_SIZE), a[2], a[3], a[4]>>

\* PAGE_ALIGN(x): (x + PAGE_SIZE - 1) & ~(PAGE_SIZE - 1), wrapping at 2^64.
PAGE_ALIGN(x) == ROUNDDOWN(U64Add(x, <<PAGE_SIZE - 1, 0, 0, 0>>))

\* -------------------------------------------------------- the arena record

\* A slot of the static array mem_arena before anything is written to it.
ZeroArena ==
    [name |-> "", base |-> U64Zero, size |-> U64Zero, priority |-> 0, flags |-> {}]

MakeArena(base, size) ==
    [name |-> "memory", base |-> base, size |-> size, priority |-> 1,
     flags |-> {"PMM_ARENA_FLAG_KMAP"}]

\* A default arena of 1 MiB instead of DEFAULT_MEMEND.
DefaultArena_OneMB == MakeArena(MEMBASE, MB1)

\* The arena platform_early_init writes to slot 0 when none was found.
DefaultArena == MakeArena(MEMBASE, DEFAULT_MEMEND)

\* ------------------------------------------------ one memory-map record

\* base_addr_low | (uint64_t)base_addr_high << 32
RecordBase(rec) == rec.base_addr_low \o rec.base_addr_high

\* length_low | (uint64_t)length_high << 32
RecordLength(rec) == rec.length_low \o rec.length_high

\* length < PAGE_SIZE * 2
TooSmall(length) == U64Lt(length, <<PAGE_SIZE * 2, 0, 0, 0>>)

\* An alignment step that moves the base up and keeps the whole length.
AlignedLength_NoShift(oldbase, base, length) == ROUNDDOWN(length)

\* An alignment step that forgets to round the length down.
AlignedLength_NotRounded(oldbase, base, length) ==
    IF U64Lt(oldbase, base) THEN U64Sub(length, U64Sub(base, oldbase)) ELSE length

\* The length after "align the base and length".
AlignedLength(oldbase, base, length) ==
    ROUNDDOWN(IF U64Lt(oldbase, base) THEN U64Sub(length, U64Sub(base, oldbase))
                                      ELSE length)

\* A filter without the test for memory below 1 MiB.
BelowOneMB_Never(base) == FALSE

\* base < 1*MB
BelowOneMB(base) == U64Lt(base, MB1)

\* A filter without the test for a base at or past the ceiling.
PastMax_Never(a, base) == FALSE

\* base >= MAX_PHYSICAL_RAM
PastMax(a, base) == U64Le(MAX_PHYSICAL_RAM(a), base)

\* end = base + length; if (end > MAX_PHYSICAL_RAM) the clip branch is taken.
ClipTaken(a, base, length) == U64Lt(MAX_PHYSICAL_RAM(a), U64Add(base, length))

\* The length after the clip: end = MAX_PHYSICAL_RAM; length = end - base.
ClippedLength(a, base, length) ==
    IF ClipTaken(a, base, length) THEN U64Sub(MAX_PHYSICAL_RAM(a), base) ELSE length

\* A loop body that does not look at the type of the record.
Survives_AnyType(a, rec) ==
    LET base == PAGE_ALIGN(RecordBase(rec))
    IN  /\ ~TooSmall(RecordLength(rec))
        /\ ~BelowOneMB(base)
        /\ ~PastMax(a, base)

\* Whether the loop body reaches "initialize a new pmm arena" for rec.
Survives(a, rec) ==
    LET base == PAGE_ALIGN(RecordBase(rec))
    IN  /\ rec.type = MB_MMAP_TYPE_AVAILABLE
        /\ ~TooSmall(RecordLength(rec))
        /\ ~BelowOneMB(base)
        /\ ~PastMax(a, base)

\* The arena the loop body writes for a surviving rec.
NewArena(a, rec) ==
    LET oldbase == RecordBase(rec)
        base    == PAGE_ALIGN(oldbase)
        length  == AlignedLength(oldbase, base, RecordLength(rec))
    IN  MakeArena(base, ClippedLength(a, base, length))

\* DEBUG_ASSERT(end > base) in the clip branch, with end == MAX_PHYSICAL_RAM.
ClipAssertHolds(a, rec) ==
    LET oldbase == RecordBase(rec)
        base    == PAGE_ALIGN(oldbase)
        length  == AlignedLength(oldbase, base, RecordLength(rec))
    IN  ClipTaken(a, base, length) => U64Lt(base, MAX_PHYSICAL_RAM(a))

\* A scan that never breaks out of the loop.
RegistryFull_Never(n) == FALSE

\* if (*found_mem_arenas == countof(mem_arena)) break;
RegistryFull(n) == n = NUM_ARENAS


\* ------------------------------------------------------------ the inputs

\* The longest memory map of the regular layouts below.
MaxRecords == 18

\* The longest memory map built freely from PairPool.
MaxShortLen == 2

Rec(type, base, length) ==
    [type |-> type,
     base_addr_low |-> SubSeq(base, 1, 2), base_addr_high |-> SubSeq(base, 3, 4),
     length_low |-> SubSeq(length, 1, 2), length_high |-> SubSeq(length, 3, 4)]

Bases ==
    { U64Zero,
      <<63489, 15, 0, 0>>,          \* 0xFF801: unaligned, aligns up to 1 MiB
      <<0, 16, 0, 0>>,              \* 0x100000
      <<2048, 16, 0, 0>>,           \* 0x100800: unaligned
      <<61440, 16383, 0, 0>>,       \* 2^30 - 0x1000
      <<0, 16384, 0, 0>>,           \* 2^30
      <<61440, 65535, 15, 0>>,      \* 2^36 - 0x1000
      <<0, 0, 16, 0>>,              \* 2^36
      <<65535, 65535, 65535, 65535>> }  \* 2^64 - 1: aligning up wraps to 0

Lengths ==
    { U64Zero,
      <<4096, 0, 0, 0>>,            \* 0x1000: one page
      <<8191, 0, 0, 0>>,            \* 0x1FFF
      <<8192, 0, 0, 0>>,            \* 0x2000: two pages
      <<10240, 0, 0, 0>>,           \* 0x2800
      <<64512, 9, 0, 0>>,           \* 0x9FC00
      <<0, 496, 0, 0>>,             \* 0x1F00000
      <<0, 0, 16, 0>>,              \* 2^36
      <<61440, 65535, 65535, 65535>>,   \* 2^64 - 0x1000
      <<65535, 65535, 65535, 65535>> }  \* 2^64 - 1

\* 1 is Available; 2 stands for every other kind.
Types == {MB_MMAP_TYPE_AVAILABLE, 2}

Records == {Rec(t, b, l) : t \in Types, b \in Bases, l \in Lengths}

PairPool ==
    { Rec(1, <<0, 16, 0, 0>>, <<0, 496, 0, 0>>),
      Rec(1, <<0, 16, 0, 0>>, <<61440, 65535, 65535, 65535>>),
      Rec(1, <<2048, 16, 0, 0>>, <<0, 0, 16, 0>>),
      Rec(1, U64Zero, <<64512, 9, 0, 0>>),
      Rec(2, <<0, 0, 16, 0>>, <<0, 496, 0, 0>>) }

\* Record k of a regular layout: 8 MiB of RAM every 16 MiB, with one record
\* of another kind ("hole") or one single-page record ("sliver") in it.
LayoutRecord(k, shape) ==
    Rec(IF shape = "hole" /\ k = 2 THEN 2 ELSE MB_MMAP_TYPE_AVAILABLE,
        <<0, 256 * k, 0, 0>>,
        IF shape = "sliver" /\ k = 3 THEN <<4096, 0, 0, 0>> ELSE <<0, 128, 0, 0>>)

Layout(n, shape) == [k \in 1..n |-> LayoutRecord(k, shape)]

MemoryMaps ==
    {<<r>> : r \in Records}
      \cup UNION {[1..n -> PairPool] : n \in 2..MaxShortLen}
      \cup {Layout(n, shape) : n \in 0..MaxRecords, shape \in {"ram", "hole", "sliver"}}

\* What the bootloader left: _multiboot_info (0 when there is none), the
\* flags of the structure it points to and the memory map of mmap_addr and
\* mmap_length (read only under MB_INFO_MMAP).
BootInfos ==
    {[addr |-> 0, flags |-> {}, mmap |-> <<>>]}
      \cup {[addr |-> 65536, flags |-> f, mmap |-> <<>>] :
               f \in {{}, {"MB_INFO_MEM_SIZE", "MB_INFO_FRAMEBUFFER"}}}
      \cup {[addr |-> 65536, flags |-> f, mmap |-> m] :
               f \in {{"MB_INFO_MMAP"},
                      {"MB_INFO_MEM_SIZE", "MB_INFO_MMAP", "MB_INFO_FRAMEBUFFER"}},
               m \in MemoryMaps}

\* sizeof(struct acpi_mcfg_table) and sizeof(struct acpi_mcfg_entry): the
\* ACPI layout, a 36-byte table header plus 8 reserved bytes, then 16-byte entries.
SIZEOF_MCFG_TABLE == 44

SIZEOF_MCFG_ENTRY == 16

\* header.length of the MCFG table acpi_get_table_by_sig may return.
McfgLengths == {0, 44, 59, 60, 76}

\* acpi_get_table_by_sig returned NULL.
NoTable == [present |-> FALSE, length |-> 0]

McfgTables == {NoTable} \cup {[present |-> TRUE, length |-> n] : n \in McfgLengths}

Statuses == {"NO_ERROR", "ERR_GENERIC"}

\* ------------------------------------------------------------- the state

VARIABLES
    arch,            \* the architecture the kernel was built for
    multiboot,       \* the boot info
    pc,              \* the position in platform_early_init and platform_init
    status,          \* what platform_parse_multiboot_info returned
    i,               \* the loop index of the memory-map scan
    found_arenas,    \* found_arenas, which *found_mem_arenas points to
    mem_arena,       \* the static array mem_arena[NUM_ARENAS]
    faults,          \* debug assertions that failed, writes outside mem_arena
    add_i,           \* the loop index of the registration loop
    total_mem,       \* total_mem
    reported_total,  \* the total the last dprintf printed
    pmm,             \* the arenas pmm_add_arena was called with, in order
    acpi_status,     \* what acpi_lite_init returned
    table,           \* what acpi_get_table_by_sig(ACPI_MCFG_SIG) returned
    pci_initted,     \* pci_initted
    calls,           \* the PCI calls made, in order, with what each returned
    prior            \* what earlier runs of platform_parse_multiboot_info left

memvars == <<status, i, found_arenas, mem_arena, faults, add_i, total_mem,
             reported_total, pmm>>

pcivars == <<acpi_status, table, pci_initted, calls>>

vars == <<arch, multiboot, prior, pc, memvars, pcivars>>

Init ==
    /\ arch \in Archs
    /\ multiboot \in BootInfos
    /\ pc = "parse_entry"
    /\ status = "none"
    /\ i = 0
    /\ found_arenas = 0
    /\ mem_arena = [k \in 0..(NUM_ARENAS - 1) |-> ZeroArena]
    /\ faults = {}
    /\ add_i = 0
    /\ total_mem = U64Zero
    /\ reported_total = U64Zero
    /\ pmm = <<>>
    /\ acpi_status = "none"
    /\ table = NoTable
    /\ pci_initted = FALSE
    /\ calls = <<>>
    /\ prior = [runs |-> 0, found |-> 0,
                arenas |-> [k \in 0..(NUM_ARENAS - 1) |-> ZeroArena]]

\* ------------------------------------------- platform_parse_multiboot_info

\* A parse that does not reset *found_mem_arenas on entry.
ParseEntry_NoReset ==
    /\ pc = "parse_entry"
    /\ found_arenas' = found_arenas
    /\ i' = 0
    /\ IF multiboot.addr = 0
         THEN pc' = "parsed" /\ status' = "ERR_NOT_FOUND"
         ELSE /\ status' = status
              /\ pc' = IF "MB_INFO_MMAP" \in multiboot.flags THEN "scan" ELSE "parse_ret"
    /\ UNCHANGED <<arch, multiboot, prior, mem_arena, faults, add_i, total_mem,
                   reported_total, pmm, pcivars>>

\* Lines 96-118: reset the count, return ERR_NOT_FOUND without boot info,
\* enter the scan under MB_INFO_MMAP.
ParseEntry ==
    /\ pc = "parse_entry"
    /\ found_arenas' = 0
    /\ i' = 0
    /\ IF multiboot.addr = 0
         THEN pc' = "parsed" /\ status' = "ERR_NOT_FOUND"
         ELSE /\ status' = status
              /\ pc' = IF "MB_INFO_MMAP" \in multiboot.flags THEN "scan" ELSE "parse_ret"
    /\ UNCHANGED <<arch, multiboot, prior, mem_arena, faults, add_i, total_mem,
                   reported_total, pmm, pcivars>>

\* Lines 120-171, one iteration of the loop over the memory map.
ScanRecord ==
    /\ pc = "scan"
    /\ i < Len(multiboot.mmap)
    /\ LET rec == multiboot.mmap[i + 1] IN
         IF Survives(arch, rec)
           THEN /\ mem_arena' = [mem_arena EXCEPT ![found_arenas] = NewArena(arch, rec)]
                /\ found_arenas' = found_arenas + 1
                /\ faults' = faults
                     \cup (IF ClipAssertHolds(arch, rec) THEN {} ELSE {"assert_155"})
                     \cup (IF found_arenas \in DOMAIN mem_arena THEN {} ELSE {"mem_arena_bounds"})
                /\ IF RegistryFull(found_arenas + 1)
                     THEN pc' = "parse_ret" /\ i' = i
                     ELSE pc' = pc /\ i' = i + 1
           ELSE /\ i' = i + 1
                /\ UNCHANGED <<pc, mem_arena, found_arenas, faults>>
    /\ UNCHANGED <<arch, multiboot, prior, status, add_i, total_mem, reported_total, pmm, pcivars>>

\* Line 120: the loop condition fails.
ScanEnd ==
    /\ pc = "scan"
    /\ ~(i < Len(multiboot.mmap))
    /\ pc' = "parse_ret"
    /\ UNCHANGED <<arch, multiboot, prior, memvars, pcivars>>

\* Lines 174-189: the framebuffer report, return NO_ERROR.
ParseReturn ==
    /\ pc = "parse_ret"
    /\ status' = "NO_ERROR"
    /\ pc' = "parsed"
    /\ UNCHANGED <<arch, multiboot, prior, i, found_arenas, mem_arena, faults, add_i,
                   total_mem, reported_total, pmm, pcivars>>

\* ---------------------------------------------------- platform_early_init

\* A fallback test that an unsigned count never passes.
FoundNone_Negative(n) == n < 0

\* if (found_arenas <= 0)
FoundNone(n) == n <= 0

\* Lines 208-219: no arena was found, slot 0 becomes the default arena.
UseDefaultArena ==
    /\ pc = "parsed"
    /\ FoundNone(found_arenas)
    /\ mem_arena' = [mem_arena EXCEPT ![0] = DefaultArena]
    /\ found_arenas' = 1
    /\ pc' = "assert"
    /\ UNCHANGED <<arch, multiboot, prior, status, i, faults, add_i, total_mem,
                   reported_total, pmm, pcivars>>

\* Line 208: arenas were found, the branch is not taken.
KeepFoundArenas ==
    /\ pc = "parsed"
    /\ ~FoundNone(found_arenas)
    /\ pc' = "assert"
    /\ UNCHANGED <<arch, multiboot, prior, memvars, pcivars>>

\* Lines 221-224: the assertion on the count, total_mem = 0.
CheckArenaCount ==
    /\ pc = "assert"
    /\ faults' = faults \cup
         (IF found_arenas > 0 /\ found_arenas <= NUM_ARENAS THEN {} ELSE {"assert_221"})
    /\ total_mem' = U64Zero
    /\ add_i' = 0
    /\ pc' = "add"
    /\ UNCHANGED <<arch, multiboot, prior, status, i, found_arenas, mem_arena,
                   reported_total, pmm, pcivars>>

\* for (size_t i = 0; i < found_arenas; i++)
MoreToAdd(k, n) == k < n

\* Lines 225-228, one iteration: register slot add_i, add its size.
AddArena ==
    /\ pc = "add"
    /\ MoreToAdd(add_i, found_arenas)
    /\ pmm' = Append(pmm, mem_arena[add_i])
    /\ total_mem' = U64Add(total_mem, mem_arena[add_i].size)
    /\ add_i' = add_i + 1
    /\ UNCHANGED <<arch, multiboot, prior, pc, status, i, found_arenas, mem_arena, faults,
                   reported_total, pcivars>>

\* Line 229: the loop is over, the total is printed; platform_init runs next.
ReportTotal ==
    /\ pc = "add"
    /\ ~MoreToAdd(add_i, found_arenas)
    /\ reported_total' = total_mem
    /\ pc' = "acpi"
    /\ UNCHANGED <<arch, multiboot, prior, status, i, found_arenas, mem_arena, faults, add_i,
                   total_mem, pmm, pcivars>>

\* ------------------------------------------------------------ platform_init

Call(fn, ret) == [fn |-> fn, ret |-> ret]

\* Line 260: acpi_lite_init(0), which succeeds or fails.
AcpiLiteInit ==
    /\ pc = "acpi"
    /\ \E ret \in Statuses :
         /\ acpi_status' = ret
         /\ calls' = Append(calls, Call("acpi_lite_init", ret))
         /\ pc' = IF ret = "NO_ERROR" THEN "mcfg" ELSE "legacy_check"
    /\ UNCHANGED <<arch, multiboot, prior, memvars, table, pci_initted>>

\* A length check that forgets the descriptor entry.
McfgLongEnough_HeaderOnly(t) == t.length >= SIZEOF_MCFG_TABLE

\* table->header.length >= sizeof(*table) + sizeof(struct acpi_mcfg_entry)
McfgLongEnough(t) == t.length >= SIZEOF_MCFG_TABLE + SIZEOF_MCFG_ENTRY

\* Lines 261-274: the MADT dump, then the MCFG lookup and its length check.
McfgLookup ==
    /\ pc = "mcfg"
    /\ \E t \in McfgTables :
         /\ table' = t
         /\ pc' = IF t.present /\ McfgLongEnough(t) THEN "ecam" ELSE "legacy_check"
    /\ UNCHANGED <<arch, multiboot, prior, memvars, acpi_status, pci_initted, calls>>

\* A pci_init_ecam that is tried again after it failed.
PciInitEcam_Retry ==
    /\ pc = "ecam"
    /\ \E err \in Statuses :
         /\ calls' = Append(calls, Call("pci_init_ecam", err))
         /\ pc' = IF err = "NO_ERROR" THEN "ecam_mgr" ELSE "ecam"
    /\ UNCHANGED <<arch, multiboot, prior, memvars, acpi_status, table, pci_initted>>

\* Lines 275-281: pci_init_ecam on the first MCFG entry.
PciInitEcam ==
    /\ pc = "ecam"
    /\ \E err \in Statuses :
         /\ calls' = Append(calls, Call("pci_init_ecam", err))
         /\ pc' = IF err = "NO_ERROR" THEN "ecam_mgr" ELSE "legacy_check"
    /\ UNCHANGED <<arch, multiboot, prior, memvars, acpi_status, table, pci_initted>>

\* The ECAM branch without pci_initted = true.
EcamBusMgrInit_FlagNotSet ==
    /\ pc = "ecam_mgr"
    /\ calls' = Append(calls, Call("pci_bus_mgr_init", "void"))
    /\ pc' = "legacy_check"
    /\ UNCHANGED <<arch, multiboot, prior, memvars, acpi_status, table, pci_initted>>

\* Lines 282-283: pci_bus_mgr_init after a successful pci_init_ecam.
EcamBusMgrInit ==
    /\ pc = "ecam_mgr"
    /\ calls' = Append(calls, Call("pci_bus_mgr_init", "void"))
    /\ pci_initted' = TRUE
    /\ pc' = "legacy_check"
    /\ UNCHANGED <<arch, multiboot, prior, memvars, acpi_status, table>>

\* A legacy block entered whatever pci_initted says.
LegacyNeeded_Always(initted) == TRUE

\* if (!pci_initted)
LegacyNeeded(initted) == ~initted

\* Lines 290-291: pci_init_legacy when no ECAM aperture was set up.
PciInitLegacy ==
    /\ pc = "legacy_check"
    /\ LegacyNeeded(pci_initted)
    /\ \E err \in Statuses :
         /\ calls' = Append(calls, Call("pci_init_legacy", err))
         /\ pc' = IF err = "NO_ERROR" THEN "legacy_mgr" ELSE "mmu"
    /\ UNCHANGED <<arch, multiboot, prior, memvars, acpi_status, table, pci_initted>>

\* Line 290: PCI is set up already, the legacy block is skipped.
SkipLegacy ==
    /\ pc = "legacy_check"
    /\ ~LegacyNeeded(pci_initted)
    /\ pc' = "mmu"
    /\ UNCHANGED <<arch, multiboot, prior, memvars, pcivars>>

\* A legacy branch that forgets pci_bus_mgr_init.
LegacyBusMgrInit_NoCall ==
    /\ pc = "legacy_mgr"
    /\ pc' = "mmu"
    /\ UNCHANGED <<arch, multiboot, prior, memvars, pcivars>>

\* Line 293: pci_bus_mgr_init after a successful pci_init_legacy.
LegacyBusMgrInit ==
    /\ pc = "legacy_mgr"
    /\ calls' = Append(calls, Call("pci_bus_mgr_init", "void"))
    /\ pc' = "mmu"
    /\ UNCHANGED <<arch, multiboot, prior, memvars, acpi_status, table, pci_initted>>

\* Line 298: platform_init_mmu_mappings; platform_init returns.
InitMmuMappings ==
    /\ pc = "mmu"
    /\ pc' = "done"
    /\ UNCHANGED <<arch, multiboot, prior, memvars, pcivars>>

Next ==
    \/ ParseEntry
    \/ ScanRecord
    \/ ScanEnd
    \/ ParseReturn
    \/ UseDefaultArena
    \/ KeepFoundArenas
    \/ CheckArenaCount
    \/ AddArena
    \/ ReportTotal
    \/ AcpiLiteInit
    \/ McfgLookup
    \/ PciInitEcam
    \/ EcamBusMgrInit
    \/ PciInitLegacy
    \/ SkipLegacy
    \/ LegacyBusMgrInit
    \/ InitMmuMappings

Spec == Init /\ [][Next]_vars

\* Lines 253-299, the steps of platform_init.
PlatformInit ==
    \/ AcpiLiteInit
    \/ McfgLookup
    \/ PciInitEcam
    \/ EcamBusMgrInit
    \/ PciInitLegacy
    \/ SkipLegacy
    \/ LegacyBusMgrInit
    \/ InitMmuMappings

\* platform_init is one thread of straight-line code whose calls return:
\* once it is entered, a step of it that can be taken is taken.
FairSpec == Spec /\ WF_vars(PlatformInit)

\* ------------------------------------------------------------- properties

\* The positions inside platform_parse_multiboot_info and right after its
\* return: slots 0..found_arenas-1 hold what the scan has emitted so far.
ParsePcs == {"scan", "parse_ret", "parsed"}

\* The positions after the registration loop of platform_early_init.
RegisteredPcs == {"acpi", "mcfg", "ecam", "ecam_mgr", "legacy_check", "legacy_mgr",
                  "mmu", "done"}

\* The positions at and after the last PCI decision of platform_init.
PciSettledPcs == {"mmu", "done"}

Slots == 0..(found_arenas - 1)

PageMultiple(x) == x[1] % PAGE_SIZE = 0

\* base + size <= ceiling, the sum taken in the integers.
EndWithin(a, ar) ==
    /\ U64Carry(ar.base, ar.size) = 0
    /\ U64Le(U64Add(ar.base, ar.size), MAX_PHYSICAL_RAM(a))

\* The records of the memory map the filter lets through, in map order.
Survivors == SelectSeq(multiboot.mmap, LAMBDA r : Survives(arch, r))

SurvivorsUpTo(n) == Cardinality({k \in 1..n : Survives(arch, multiboot.mmap[k])})

\* The boot info yields no arena: none, no memory map, or no surviving record.
NothingFound ==
    \/ multiboot.addr = 0
    \/ "MB_INFO_MMAP" \notin multiboot.flags
    \/ \A k \in 1..Len(multiboot.mmap) : ~Survives(arch, multiboot.mmap[k])

Called(fn) == \E k \in 1..Len(calls) : calls[k].fn = fn

CalledWith(fn, ret) == \E k \in 1..Len(calls) : calls[k] = Call(fn, ret)

\* C1: when the registration loop starts, and from then on, the arena count
\* is at least 1 and at most 16, whatever the boot info was.
C1_ArenaCountInRange ==
    pc \in {"add"} \cup RegisteredPcs =>
        found_arenas >= 1 /\ found_arenas <= 16

\* A full registry at the start of the registration loop.
C1_Witness == pc = "add" /\ add_i = 0 /\ found_arenas = 16

\* C2: every arena the scan emits from a memory-map record has a base and a
\* size that are multiples of the page size, a size above 0 and a base of at
\* least 1 MiB.
C2_FilteredArenasAligned ==
    pc \in ParsePcs =>
        \A k \in Slots :
            /\ PageMultiple(mem_arena[k].base)
            /\ PageMultiple(mem_arena[k].size)
            /\ mem_arena[k].size # U64Zero
            /\ U64Le(MB1, mem_arena[k].base)

\* An arena emitted from a record whose base and length were not page-aligned.
C2_Witness ==
    /\ pc = "parsed"
    /\ found_arenas = 1
    /\ Len(multiboot.mmap) = 1
    /\ ~PageMultiple(RecordBase(multiboot.mmap[1]))
    /\ ~PageMultiple(RecordLength(multiboot.mmap[1]))

\* C3: every arena the scan emits ends at or below MAX_PHYSICAL_RAM, the
\* end base + size taken as a sum in the integers, also for records whose
\* base + length passes 2^64.
C3_ArenaEndWithinMax ==
    pc \in ParsePcs => \A k \in Slots : EndWithin(arch, mem_arena[k])

\* C4: without boot info, without a memory map, or when no record survives,
\* exactly one arena is registered, the default arena of 16 MiB at MEMBASE,
\* priority 1, kernel-mapped; no assertion fails on the way.
C4_FallbackRegistersDefault ==
    (pc \in RegisteredPcs /\ NothingFound) =>
        /\ pmm = << [name |-> "memory", base |-> MEMBASE, size |-> <<0, 256, 0, 0>>,
                     priority |-> 1, flags |-> {"PMM_ARENA_FLAG_KMAP"}] >>
        /\ found_arenas = 1
        /\ faults = {}

\* Registration is over for a memory map that had records, none surviving.
C4_Witness ==
    /\ pc = "acpi"
    /\ "MB_INFO_MMAP" \in multiboot.flags
    /\ Len(multiboot.mmap) = 2
    /\ NothingFound
    /\ Len(pmm) = 1

\* C5: the count never passes 16 during the scan; with more than 16
\* surviving records the scan stops at the 16th, the 16 slots hold the
\* arenas of the first 16 survivors in map order, and exactly those are
\* registered.
C5_CapacityTruncation ==
    /\ pc \in ParsePcs => found_arenas <= 16
    /\ (Len(Survivors) > 16 /\ pc \notin {"parse_entry", "scan"}) =>
          /\ found_arenas = 16
          /\ \A k \in 0..15 : mem_arena[k] = NewArena(arch, Survivors[k + 1])
          /\ Survives(arch, multiboot.mmap[i + 1])
          /\ SurvivorsUpTo(i + 1) = 16
    /\ (Len(Survivors) > 16 /\ pc \in RegisteredPcs) =>
          pmm = [k \in 1..16 |-> NewArena(arch, Survivors[k])]

\* Sixteen arenas registered from a map of 17 survivors around a record of
\* another kind, the last record never read.
C5_Witness ==
    /\ pc = "acpi"
    /\ Len(Survivors) = 17
    /\ Len(multiboot.mmap) = 18
    /\ i + 1 < Len(multiboot.mmap)
    /\ Len(pmm) = 16

\* The sum of the sizes of a sequence of arenas: its low 64 bits and the
\* number of times the running sum passed 2^64.
RECURSIVE SumSizes(_)
SumSizes(seq) ==
    IF seq = <<>>
      THEN [over |-> 0, low |-> U64Zero]
      ELSE LET rest == SumSizes(SubSeq(seq, 1, Len(seq) - 1))
               size == seq[Len(seq)].size
           IN  [over |-> rest.over + U64Carry(rest.low, size),
                low  |-> U64Add(rest.low, size)]

\* C6: pmm_add_arena is called once per built arena, slot 0 upward, and for
\* nothing else, and the reported total is the sum of the registered sizes.
C6_RegisteredOnceInOrder ==
    pc \in RegisteredPcs =>
        /\ pmm = [k \in 1..found_arenas |-> mem_arena[k - 1]]
        /\ SumSizes(pmm).over = 0
        /\ reported_total = SumSizes(pmm).low

\* C7: pci_bus_mgr_init is called at most once, and each call comes right
\* after a pci_init_ecam or pci_init_legacy that returned NO_ERROR.
C7_BusMgrInitOnceAfterSuccess ==
    /\ Cardinality({k \in 1..Len(calls) : calls[k].fn = "pci_bus_mgr_init"}) <= 1
    /\ \A k \in 1..Len(calls) :
          calls[k].fn = "pci_bus_mgr_init" =>
              /\ k > 1
              /\ calls[k - 1].fn \in {"pci_init_ecam", "pci_init_legacy"}
              /\ calls[k - 1].ret = "NO_ERROR"

\* The bus manager initialized by the legacy path after pci_init_ecam failed.
C7_Witness ==
    /\ pc = "done"
    /\ CalledWith("pci_init_ecam", "ERR_GENERIC")
    /\ CalledWith("pci_init_legacy", "NO_ERROR")
    /\ Called("pci_bus_mgr_init")

\* ACPI came up, an MCFG table was found and it holds at least one entry.
EcamCandidate ==
    /\ acpi_status = "NO_ERROR"
    /\ table.present
    /\ table.length >= 44 + 16

\* C8: pci_init_ecam is tried only after acpi_lite_init succeeded and an
\* MCFG table of at least header plus one entry was found; in every other
\* case it is never tried and pci_init_legacy is tried instead.
C8_EcamOnlyWithUsableMcfg ==
    /\ (Called("pci_init_ecam") \/ pc \in {"ecam", "ecam_mgr"}) => EcamCandidate
    /\ (pc \in PciSettledPcs /\ ~EcamCandidate) =>
          /\ ~Called("pci_init_ecam")
          /\ Called("pci_init_legacy")
          /\ faults = {}

\* An MCFG table one byte short of header plus entry, and the legacy path taken.
C8_Witness ==
    /\ pc = "done"
    /\ acpi_status = "NO_ERROR"
    /\ table.present
    /\ table.length = 59
    /\ Called("pci_init_legacy")

\* C9: pci_init_legacy is called exactly when pci_init_ecam was not tried
\* or failed; never after pci_init_ecam succeeded.
C9_LegacyIffNoEcamSuccess ==
    /\ CalledWith("pci_init_ecam", "NO_ERROR") => ~Called("pci_init_legacy")
    /\ pc \in PciSettledPcs =>
          (Called("pci_init_legacy") <=>
              (~Called("pci_init_ecam") \/ CalledWith("pci_init_ecam", "ERR_GENERIC")))

\* platform_init is over after a successful pci_init_ecam.
C9_Witness ==
    /\ pc = "done"
    /\ CalledWith("pci_init_ecam", "NO_ERROR")
    /\ Called("pci_bus_mgr_init")

\* The end of a record as the filter sees it, aligned base plus page-rounded
\* length, exceeds the ceiling when the sum is taken in the integers.
EndExceedsMax(a, rec) ==
    LET oldbase == RecordBase(rec)
        base    == PAGE_ALIGN(oldbase)
        length  == AlignedLength(oldbase, base, RecordLength(rec))
    IN  \/ U64Carry(base, length) = 1
        \/ U64Lt(MAX_PHYSICAL_RAM(a), U64Add(base, length))

\* C10: a surviving record whose end exceeds MAX_PHYSICAL_RAM is emitted,
\* and the emitted arena ends exactly at MAX_PHYSICAL_RAM.
C10_ClippedToCeiling ==
    [][ ( /\ pc = "scan"
          /\ i < Len(multiboot.mmap)
          /\ Survives(arch, multiboot.mmap[i + 1])
          /\ EndExceedsMax(arch, multiboot.mmap[i + 1]) )
        => ( /\ found_arenas' = found_arenas + 1
             /\ U64Carry(mem_arena'[found_arenas].base, mem_arena'[found_arenas].size) = 0
             /\ U64Add(mem_arena'[found_arenas].base, mem_arena'[found_arenas].size)
                  = MAX_PHYSICAL_RAM(arch) ) ]_vars

\* The invariants of an arena: base and size multiples of the page size, a
\* size above 0, a base of at least 1 MiB, and an end, taken in the
\* integers, at or below the ceiling.
ArenaValid(a, ar) ==
    /\ PageMultiple(ar.base)
    /\ PageMultiple(ar.size)
    /\ ar.size # U64Zero
    /\ U64Le(<<0, 16, 0, 0>>, ar.base)
    /\ EndWithin(a, ar)

\* C11: every arena pmm_add_arena is called with, the default arena of the
\* fallback included, satisfies the arena invariants.
C11_RegisteredArenasValid ==
    \A k \in 1..Len(pmm) : ArenaValid(arch, pmm[k])

\* ------------------------------- platform_parse_multiboot_info, run again

\* How many times the parse is run again on the same boot info.
MaxReruns == 1

\* platform_parse_multiboot_info is called once more on the boot info and
\* the registry the last run left; what that run returned is kept aside.
ParseAgain ==
    /\ pc = "parsed"
    /\ prior.runs < MaxReruns
    /\ prior' = [runs |-> prior.runs + 1, found |-> found_arenas, arenas |-> mem_arena]
    /\ pc' = "parse_entry"
    /\ UNCHANGED <<arch, multiboot, memvars, pcivars>>

NextRerun ==
    \/ ParseEntry
    \/ ScanRecord
    \/ ScanEnd
    \/ ParseReturn
    \/ ParseAgain

SpecRerun == Init /\ [][NextRerun]_vars

\* C12: a second run of the parse on the same boot info, starting from the
\* registry the first run left, returns the same count and the same arenas
\* in slots 0..count-1.
C12_ParseIdempotent ==
    (pc = "parsed" /\ prior.runs >= 1) =>
        /\ found_arenas = prior.found
        /\ \A k \in Slots : mem_arena[k] = prior.arenas[k]

\* The second run is over on a map that filled several slots.
C12_Witness ==
    /\ pc = "parsed"
    /\ prior.runs = 1
    /\ found_arenas = 16
    /\ Len(multiboot.mmap) > 16

\* ------------------------------------------------ properties of one record

\* The scan is about to read record i + 1 of the memory map.
AtRecord == pc = "scan" /\ i < Len(multiboot.mmap)

\* The record the scan is about to read.
ThisRecord == multiboot.mmap[i + 1]

\* The step leaves the registry and the count alone and moves on to the
\* next record.
RecordSkipped ==
    /\ mem_arena' = mem_arena
    /\ found_arenas' = found_arenas
    /\ i' = i + 1
    /\ pc' = "scan"

\* C13: a record whose type is not Available adds no arena and changes
\* neither the registry nor the count, whatever its base and length; the
\* scan goes on with the next record.
C13_OtherKindsSkipped ==
    [][ (AtRecord /\ ThisRecord.type # 1) => RecordSkipped ]_vars

\* A record of another kind, with a base and length an Available record
\* would survive with, was passed over after one arena had been built.
C13_Witness ==
    /\ pc = "scan"
    /\ i = 2
    /\ found_arenas = 1
    /\ multiboot.mmap[2].type = 2
    /\ Survives(arch, [multiboot.mmap[2] EXCEPT !.type = 1])
    /\ Len(multiboot.mmap) > 2

\* An Available record one of the three drop steps removes: a raw length
\* under two pages, or a page-aligned base under 1 MiB or at or past the
\* ceiling.
DropCase(a, rec) ==
    \/ U64Lt(RecordLength(rec), <<8192, 0, 0, 0>>)
    \/ U64Lt(PAGE_ALIGN(RecordBase(rec)), <<0, 16, 0, 0>>)
    \/ U64Le(MAX_PHYSICAL_RAM(a), PAGE_ALIGN(RecordBase(rec)))

\* The arena a surviving record stands for: the base aligned up, the length
\* less the shift of the base, rounded down to a page multiple and cut at
\* the ceiling, the end taken in the integers.
ExpectedArena(a, rec) ==
    LET base    == PAGE_ALIGN(RecordBase(rec))
        shifted == U64Sub(RecordLength(rec), U64Sub(base, RecordBase(rec)))
        length  == ROUNDDOWN(shifted)
        over    == \/ U64Carry(base, length) = 1
                   \/ U64Lt(MAX_PHYSICAL_RAM(a), U64Add(base, length))
    IN  [name |-> "memory", base |-> base,
         size |-> IF over THEN U64Sub(MAX_PHYSICAL_RAM(a), base) ELSE length,
         priority |-> 1, flags |-> {"PMM_ARENA_FLAG_KMAP"}]

\* C14: a surviving Available record is emitted as the arena "memory" with
\* the base aligned up, the size the shortened length rounded down and
\* clipped at the ceiling, priority 1 and the kernel-mapped flag; the record
\* {0x100000, 0x1F00000} is emitted with base and size as they are.
C14_EmittedArena ==
    [][ (AtRecord /\ ThisRecord.type = 1 /\ ~DropCase(arch, ThisRecord)) =>
          /\ found_arenas' = found_arenas + 1
          /\ mem_arena'[found_arenas] = ExpectedArena(arch, ThisRecord)
          /\ (/\ RecordBase(ThisRecord) = <<0, 16, 0, 0>>
              /\ RecordLength(ThisRecord) = <<0, 496, 0, 0>>) =>
                 /\ mem_arena'[found_arenas].base = <<0, 16, 0, 0>>
                 /\ mem_arena'[found_arenas].size = <<0, 496, 0, 0>> ]_vars

\* C15: an Available record with a raw length under two pages, or with a
\* page-aligned base under 1 MiB (wherever the region ends) or at or past the
\* ceiling, adds no arena, changes neither the registry nor the count, and
\* the scan goes on with the next record.
C15_DroppedRecordsSkipped ==
    [][ (AtRecord /\ ThisRecord.type = 1 /\ DropCase(arch, ThisRecord)) =>
          RecordSkipped ]_vars

\* An Available record that starts under 1 MiB was dropped and the record
\* after it was read and emitted.
C15_Witness ==
    /\ pc = "scan"
    /\ i = 2
    /\ found_arenas = 1
    /\ multiboot.mmap[1].type = 1
    /\ U64Lt(PAGE_ALIGN(RecordBase(multiboot.mmap[1])), <<0, 16, 0, 0>>)
    /\ mem_arena[0] = NewArena(arch, multiboot.mmap[2])

\* ------------------------------------------------ properties of platform_init

EcamSelected == CalledWith("pci_init_ecam", "NO_ERROR")

LegacySelected == CalledWith("pci_init_legacy", "NO_ERROR")

PciUninitialized == ~EcamSelected /\ ~LegacySelected

\* PCI is in exactly one of the three states, and the bus manager is
\* initialized exactly when one of the two initializers returned success.
PciTerminalState ==
    /\ Cardinality({s \in {"ecam", "legacy", "none"} :
           \/ s = "ecam" /\ EcamSelected
           \/ s = "legacy" /\ LegacySelected
           \/ s = "none" /\ PciUninitialized}) = 1
    /\ Called("pci_bus_mgr_init") <=> (EcamSelected \/ LegacySelected)
    /\ (CalledWith("pci_init_ecam", "ERR_GENERIC")
          /\ CalledWith("pci_init_legacy", "ERR_GENERIC"))
         => ~Called("pci_bus_mgr_init")

\* C16: platform_init, once entered, always gets to platform_init_mmu_mappings and returns,
\* with PCI in exactly one of the states Ecam-selected, Legacy-selected and
\* Uninitialized; the bus manager is initialized exactly when one of the two
\* initializers returned success, never when both failed.
C16_TerminatesInOneState == (pc = "acpi") ~> (pc = "done" /\ PciTerminalState)

\* platform_init returned after both initializers failed.
C16_Witness ==
    /\ pc = "done"
    /\ CalledWith("pci_init_ecam", "ERR_GENERIC")
    /\ CalledWith("pci_init_legacy", "ERR_GENERIC")
    /\ ~Called("pci_bus_mgr_init")

\* The three tiers of the PCI bring-up, in the order the code tries them.
Tiers == <<"acpi_lite_init", "pci_init_ecam", "pci_init_legacy">>

\* How many times fn was called.
TimesCalled(fn) == Cardinality({k \in 1..Len(calls) : calls[k].fn = fn})

\* C17: acpi_lite_init, pci_init_ecam and pci_init_legacy are each called at
\* most once in a run of platform_init, and a tier that failed is not called
\* again after a later tier ran.
C17_TiersTriedOnce ==
    /\ \A t \in 1..3 : TimesCalled(Tiers[t]) <= 1
    /\ \A k, j, m \in 1..Len(calls) :
          (/\ k < j /\ j < m
           /\ calls[k].ret = "ERR_GENERIC"
           /\ \E t, u \in 1..3 : t < u /\ calls[k].fn = Tiers[t] /\ calls[j].fn = Tiers[u])
          => calls[m].fn # calls[k].fn

\* platform_init returned after pci_init_ecam and then pci_init_legacy failed.
C17_Witness ==
    /\ pc = "done"
    /\ CalledWith("acpi_lite_init", "NO_ERROR")
    /\ CalledWith("pci_init_ecam", "ERR_GENERIC")
    /\ CalledWith("pci_init_legacy", "ERR_GENERIC")
    /\ TimesCalled("pci_init_ecam") = 1

\* The clip branch (lines 153-158) is taken for rec.
RecordClipped(a, rec) ==
    LET oldbase == RecordBase(rec)
        base    == PAGE_ALIGN(oldbase)
        length  == AlignedLength(oldbase, base, RecordLength(rec))
    IN  Survives(a, rec) /\ ClipTaken(a, base, length)

\* C18: no assertion of the memory pipeline fails and no write to mem_arena
\* is out of bounds: a record that takes the clip branch has its aligned
\* base below MAX_PHYSICAL_RAM, the scan writes only slots below 16, and the
\* count is in 1..16 when line 221 asserts it.
C18_NoAssertionFails ==
    /\ faults = {}
    /\ pc = "scan" => found_arenas < NUM_ARENAS
    /\ (AtRecord /\ RecordClipped(arch, ThisRecord)) =>
           U64Lt(PAGE_ALIGN(RecordBase(ThisRecord)), MAX_PHYSICAL_RAM(arch))
    /\ pc = "assert" => (found_arenas > 0 /\ found_arenas <= NUM_ARENAS)

\* The scan clipped its first record and the count assertion has passed.
C18_Witness ==
    /\ pc = "add"
    /\ multiboot.addr # 0
    /\ "MB_INFO_MMAP" \in multiboot.flags
    /\ Len(multiboot.mmap) >= 1
    /\ RecordClipped(arch, multiboot.mmap[1])
    /\ mem_arena[0].size = U64Sub(MAX_PHYSICAL_RAM(arch), mem_arena[0].base)

\* c1 * 2^64 + l1 <= c2 * 2^64 + l2
WideLe(c1, l1, c2, l2) == c1 < c2 \/ (c1 = c2 /\ U64Le(l1, l2))

\* The arena ar lies inside the raw range [base, base + length) of rec, the
\* two ends taken as sums in the integers.
WithinRecord(ar, rec) ==
    /\ U64Le(RecordBase(rec), ar.base)
    /\ WideLe(U64Carry(ar.base, ar.size), U64Add(ar.base, ar.size),
              U64Carry(RecordBase(rec), RecordLength(rec)),
              U64Add(RecordBase(rec), RecordLength(rec)))
    /\ U64Le(ar.size, RecordLength(rec))

\* C19: every arena built from a memory-map record lies inside the raw range
\* of that record, and the default arena is registered only when no record
\* produced an arena: the registered arenas are then the parsed ones, none of
\* them overwritten by the default.
C19_ArenasWithinReported ==
    /\ pc \in ParsePcs =>
           \A k \in Slots : WithinRecord(mem_arena[k], Survivors[k + 1])
    /\ pc \in RegisteredPcs =>
           /\ (\E k \in 1..Len(pmm) : pmm[k] = DefaultArena) => NothingFound
           /\ ~NothingFound =>
                  \A k \in 1..Len(pmm) : WithinRecord(pmm[k], Survivors[k])

\* One record with an unaligned base was registered as an arena that starts
\* above the raw base and is shorter than the raw length.
C19_Witness ==
    /\ pc = "acpi"
    /\ ~NothingFound
    /\ Len(multiboot.mmap) = 1
    /\ Len(pmm) = 1
    /\ pmm[1].base # RecordBase(multiboot.mmap[1])
    /\ pmm[1].size # RecordLength(multiboot.mmap[1])

=============================================================================
